---- MODULE Spec2Model ----
(***************************************************************************)
(* Model of the wind-turbine analysis functions:                           *)
(*   src/src/anomaly_scanner.py     add_difference_column,                 *)
(*                                  scan_turbine_anomalies                 *)
(*   src/src/data_checker_clean.py  remove_duplicate_timestamps,           *)
(*                                  find_timestamp_gaps,                   *)
(*                                  detect_missing_timestamps              *)
(* A table (DataFrame) is a sequence of rows [turbine, ts, value].         *)
(* Turbine ids and timestamps are integers (timestamps count ticks), the   *)
(* value column holds integers, and every comparison the code makes on     *)
(* floats (z-scores, the 1.4826 * MAD scale) is made here on exact         *)
(* rationals by cross-multiplication.                                      *)
(***************************************************************************)
EXTENDS Integers, Sequences, FiniteSets, TLC

VARIABLES df, args, op, status, result, prev

vars == <<df, args, op, status, result, prev>>

(* ---------------------------------------------------------------- bounds *)
MaxRows == 3

MaxGapRows == 3
MaxTick == 4

Turbines == {1, 2, 3}
Timestamps == {1, 2}
Values == {-3, 0, 1, 2, 3}

GapTurbines == {1, 2}
Ticks == 0..MaxTick

(* 1.4826, the MAD scale of the modified z-score, as a fraction *)
MadScaleNum == 14826
MadScaleDen == 10000

(* ------------------------------------------------------------- helpers *)
Abs(x) == IF x < 0 THEN -x ELSE x

Range(s) == {s[i] : i \in DOMAIN s}

RECURSIVE SumSeq(_)
SumSeq(s) == IF s = <<>> THEN 0 ELSE Head(s) + SumSeq(Tail(s))

Front(s) == SubSeq(s, 1, Len(s) - 1)

Last(s) == s[Len(s)]

(* ------------------------------------------------ DataFrame.sort_values *)
(* row a is not after row b in the order of the key columns `by`          *)
KeyLE(a, b, by) ==
    CASE by = "ts_turbine" -> a.ts < b.ts \/ (a.ts = b.ts /\ a.turbine <= b.turbine)
      [] by = "turbine_ts" -> a.turbine < b.turbine \/ (a.turbine = b.turbine /\ a.ts <= b.ts)
      [] by = "ts" -> a.ts <= b.ts

RECURSIVE InsertRow(_, _, _)
InsertRow(r, s, by) ==
    IF s = <<>> THEN <<r>>
    ELSE IF KeyLE(Head(s), r, by)
         THEN <<Head(s)>> \o InsertRow(r, Tail(s), by)
         ELSE <<r>> \o s

(* df.sort_values(by): rows with equal keys keep their order (the sort on *)
(* several columns is stable; the sort on the timestamp alone is applied  *)
(* to frames already in key order and is taken as stable too)             *)
RECURSIVE SortValues(_, _)
SortValues(s, by) ==
    IF s = <<>> THEN <<>>
    ELSE InsertRow(Last(s), SortValues(Front(s), by), by)

RECURSIVE InsertInt(_, _)
InsertInt(x, s) ==
    IF s = <<>> THEN <<x>>
    ELSE IF Head(s) <= x THEN <<Head(s)>> \o InsertInt(x, Tail(s))
         ELSE <<x>> \o s

RECURSIVE SortInts(_)
SortInts(s) == IF s = <<>> THEN <<>> ELSE InsertInt(Last(s), SortInts(Front(s)))

(* the elements of a finite set of integers, ascending                     *)
SetToSortedSeq(S) ==
    LET f[k \in 0..Cardinality(S)] ==
            IF k = 0 THEN <<>>
            ELSE LET rest == S \ Range(f[k - 1])
                 IN Append(f[k - 1], CHOOSE x \in rest : \A y \in rest : x <= y)
    IN f[Cardinality(S)]

(* --------------------------------------------------- group statistics *)
(* twice the median of a non-empty sequence of integers (Series.median:    *)
(* the middle value, or the mean of the two middle values)                 *)
Median2(s) ==
    LET o == SortInts(s)
        n == Len(s)
    IN IF n % 2 = 1 THEN 2 * o[(n + 1) \div 2]
       ELSE o[n \div 2] + o[n \div 2 + 1]

(* four times the median absolute deviation:                               *)
(* (abs_values - median_val).abs().median()                                *)
Mad4(abs_values) ==
    LET med2 == Median2(abs_values)
    IN Median2([i \in DOMAIN abs_values |-> Abs(2 * abs_values[i] - med2)])

(* n * sum(x^2) - sum(x)^2 = n * (n - 1) * std^2, std the sample standard  *)
(* deviation (Series.std, ddof = 1)                                        *)
StdNumerator(abs_values) ==
    LET n == Len(abs_values)
        S == SumSeq(abs_values)
        Q == SumSeq([i \in DOMAIN abs_values |-> abs_values[i] * abs_values[i]])
    IN n * Q - S * S

(* MadPasses with "differs from the median" for "above the median"        *)
MadPassesAnyDifference(abs_value, abs_values, dt) ==
    LET median2 == Median2(abs_values)
        mad4 == Mad4(abs_values)
    IN IF mad4 > 0
       THEN 2 * Abs(2 * abs_value - median2) * MadScaleDen * dt.den
                > dt.num * MadScaleNum * mad4
       ELSE 2 * abs_value # median2

(* MadPasses without the fallback for MAD = 0                              *)
MadPassesNoFallback(abs_value, abs_values, dt) ==
    LET median2 == Median2(abs_values)
        mad4 == Mad4(abs_values)
    IN /\ mad4 > 0
       /\ 2 * Abs(2 * abs_value - median2) * MadScaleDen * dt.den
                > dt.num * MadScaleNum * mad4

(* the 'mad' branch of step 2, lines 106-117; dt is deviation_threshold    *)
MadPasses(abs_value, abs_values, dt) ==
    LET median2 == Median2(abs_values)
        mad4 == Mad4(abs_values)
    IN IF mad4 > 0
       THEN 2 * Abs(2 * abs_value - median2) * MadScaleDen * dt.den
                > dt.num * MadScaleNum * mad4
       ELSE 2 * abs_value > median2

(* StdPasses with z >= deviation_threshold for z > deviation_threshold     *)
StdPassesNonStrict(abs_value, abs_values, dt) ==
    LET n == Len(abs_values)
        S == SumSeq(abs_values)
        v == StdNumerator(abs_values)
        d == n * abs_value - S
    IN IF v > 0
       THEN \/ dt.num <= 0
            \/ (n - 1) * d * d * dt.den * dt.den >= dt.num * dt.num * n * v
       ELSE n * abs_value > S

(* StdPasses with "at least the mean" in the fallback for std = 0          *)
StdPassesFallbackAtLeast(abs_value, abs_values, dt) ==
    LET n == Len(abs_values)
        S == SumSeq(abs_values)
        v == StdNumerator(abs_values)
        d == n * abs_value - S
    IN IF v > 0
       THEN \/ dt.num < 0
            \/ (n - 1) * d * d * dt.den * dt.den > dt.num * dt.num * n * v
       ELSE n * abs_value >= S

(* the 'std' branch of step 2, lines 119-128                               *)
StdPasses(abs_value, abs_values, dt) ==
    LET n == Len(abs_values)
        S == SumSeq(abs_values)
        v == StdNumerator(abs_values)
        d == n * abs_value - S
    IN IF v > 0
       THEN \/ dt.num < 0
            \/ (n - 1) * d * d * dt.den * dt.den > dt.num * dt.num * n * v
       ELSE n * abs_value > S

PassesDeviationNoAutoPass(abs_value, abs_values, a) ==
    /\ Len(abs_values) > 1
    /\ \/ a.deviation_method = "mad"
          /\ MadPasses(abs_value, abs_values, a.deviation_threshold)
       \/ a.deviation_method = "std"
          /\ StdPasses(abs_value, abs_values, a.deviation_threshold)

(* step 2 for one record that passed step 1, lines 103-136                 *)
PassesDeviation(abs_value, abs_values, a) ==
    IF Len(abs_values) > 1
    THEN IF a.deviation_method = "mad"
         THEN MadPasses(abs_value, abs_values, a.deviation_threshold)
         ELSE IF a.deviation_method = "std"
              THEN StdPasses(abs_value, abs_values, a.deviation_threshold)
              ELSE FALSE
    ELSE TRUE

(* ------------------------------------------------ scan_turbine_anomalies *)
(* df.loc[mask, 'detection'] = x, mask = same timestamp and same turbine   *)
SetDetection(t, timestamp, turbine_id, x) ==
    [i \in DOMAIN t |->
        IF t[i].ts = timestamp /\ t[i].turbine = turbine_id
        THEN [t[i] EXCEPT !.detection = x]
        ELSE t[i]]

(* step 1, line 93: the record fails the magnitude gate                    *)
FailsAbsThresholdLax(abs_value, a) == abs_value < a.abs_threshold[1]

FailsAbsThreshold(abs_value, a) == abs_value <= a.abs_threshold[1]

(* the body of the inner loop for the i-th index entry of a timestamp      *)
(* group, lines 88-148. st carries the frame and the counters; a record    *)
(* whose turbine id occurs twice in the group index makes .loc return a    *)
(* Series, and the `if` on it raises; so does the comparison with None.    *)
ScanRecord(st, group, i, a) ==
    LET turbine_id == group[i].turbine
        timestamp == group[i].ts
        same == {j \in DOMAIN group : group[j].turbine = turbine_id}
        value == group[i].value
        abs_value == Abs(value)
        abs_values == [j \in DOMAIN group |-> Abs(group[j].value)]
    IN IF Cardinality(same) > 1 \/ a.abs_threshold = <<>>
       THEN [st EXCEPT !.raised = TRUE]
       ELSE IF FailsAbsThreshold(abs_value, a)
            THEN [st EXCEPT !.df = SetDetection(st.df, timestamp, turbine_id, 0)]
            ELSE IF PassesDeviation(abs_value, abs_values, a)
                 THEN [st EXCEPT
                         !.df = SetDetection(st.df, timestamp, turbine_id, value),
                         !.abs_threshold_pass = @ + 1,
                         !.deviation_pass = @ + 1,
                         !.both_criteria_met = @ + 1]
                 ELSE [st EXCEPT
                         !.df = SetDetection(st.df, timestamp, turbine_id, 0),
                         !.abs_threshold_pass = @ + 1]

(* the inner loop over the group's index, from entry i on                  *)
RECURSIVE ScanGroup(_, _, _, _)
ScanGroup(st, group, i, a) ==
    IF st.raised \/ i > Len(group) THEN st
    ELSE ScanGroup(ScanRecord(st, group, i, a), group, i + 1, a)

(* the outer loop, df.groupby(timestamp_col): the groups in ascending      *)
(* timestamp order; tss is the sorted sequence of timestamps still to do   *)
RECURSIVE ScanGroups(_, _, _)
ScanGroups(st, tss, a) ==
    IF st.raised \/ tss = <<>> THEN st
    ELSE LET timestamp == Head(tss)
             group == SelectSeq(st.df, LAMBDA r : r.ts = timestamp)
         IN ScanGroups(ScanGroup(st, group, 1, a), Tail(tss), a)

(* the distinct timestamps of a table, ascending                           *)
GroupKeys(t) == SetToSortedSeq({t[i].ts : i \in DOMAIN t})

(* ScanStart without the sort of line 73                                   *)
ScanStartUnsorted(t) ==
    [df |-> [i \in DOMAIN t |->
                  [turbine |-> t[i].turbine,
                   ts |-> t[i].ts,
                   value |-> t[i].value,
                   detection |-> 0]],
     abs_threshold_pass |-> 0,
     deviation_pass |-> 0,
     both_criteria_met |-> 0,
     raised |-> FALSE]

(* lines 71-81: copy, sort, detection = 0.0, counters = 0                  *)
ScanStart(t) ==
    LET sorted == SortValues(t, "ts_turbine")
    IN [df |-> [i \in DOMAIN sorted |->
                  [turbine |-> sorted[i].turbine,
                   ts |-> sorted[i].ts,
                   value |-> sorted[i].value,
                   detection |-> 0]],
        abs_threshold_pass |-> 0,
        deviation_pass |-> 0,
        both_criteria_met |-> 0,
        raised |-> FALSE]

(* the whole call: the final state of the loops, lines 71-148              *)
ScanLoops(t, a) == ScanGroups(ScanStart(t), GroupKeys(t), a)

(* lines 150-166: the returned pair (df_detection, anomaly_stats)          *)
ScanReturn(st) ==
    [df_detection |-> [i \in DOMAIN st.df |->
                          [turbine |-> st.df[i].turbine,
                           ts |-> st.df[i].ts,
                           detection |-> st.df[i].detection]],
     anomaly_stats |-> [total_records |-> Len(st.df),
                        abs_threshold_pass |-> st.abs_threshold_pass,
                        deviation_pass |-> st.deviation_pass,
                        both_criteria_met |-> st.both_criteria_met]]

(* ------------------------------------------------- add_difference_column *)
DifferenceTypes == {"absolute", "relative", "ratio"}

(* lines 20-25: the new column of one row, a fraction num / den; a zero    *)
(* denominator gives inf or NaN in the column, it does not raise           *)
Difference(r, difference_type) ==
    CASE difference_type = "absolute" ->
            [num |-> r.column1 - r.column2, den |-> 1]
      [] difference_type = "relative" ->
            [num |-> (r.column1 - r.column2) * 100, den |-> r.column2]
      [] difference_type = "ratio" ->
            [num |-> r.column1, den |-> r.column2]

(* lines 18-29: the copy of the table with the new column; called with a   *)
(* difference_type in DifferenceTypes (line 27 raises otherwise)           *)
AddDifferenceColumn(t, difference_type) ==
    [df |-> [i \in DOMAIN t |->
                [turbine |-> t[i].turbine,
                 column1 |-> t[i].column1,
                 column2 |-> t[i].column2,
                 diff_pwr |-> Difference(t[i], difference_type)]]]

(* ============================================ data_checker_clean.py === *)
(* np.nan in the value column of a row made by fill_missing; the value    *)
(* column of an input row holds the row's position in the input, >= 1     *)
NaN == 0

(* sorted(df[turbine_col].unique())                                        *)
UniqueTurbines(t) == SetToSortedSeq({t[i].turbine : i \in DOMAIN t})

(* df[df[turbine_col] == turbine_id]                                       *)
TurbineData(t, turbine_id) == SelectSeq(t, LAMBDA r : r.turbine = turbine_id)

(* pd.concat of a sequence of frames                                       *)
RECURSIVE Concat(_)
Concat(frames) == IF frames = <<>> THEN <<>> ELSE Head(frames) \o Concat(Tail(frames))

(* --------------------------------------- remove_duplicate_timestamps --- *)
(* duplicated(subset=[timestamp_col], keep=False): the first-occurrence-   *)
(* only variant marks the later occurrences alone                          *)
DuplicatedAfterFirst(turbine_data, i) ==
    \E j \in 1..(i - 1) : turbine_data[j].ts = turbine_data[i].ts

Duplicated(turbine_data, i) ==
    \E j \in DOMAIN turbine_data \ {i} : turbine_data[j].ts = turbine_data[i].ts

(* row i survives drop_duplicates(subset=[timestamp_col], keep=keep)       *)
KeepsRow(turbine_data, i, keep) ==
    CASE keep = "first" ->
            \A j \in 1..(i - 1) : turbine_data[j].ts # turbine_data[i].ts
      [] keep = "last" ->
            \A j \in (i + 1)..Len(turbine_data) : turbine_data[j].ts # turbine_data[i].ts
      [] keep = "False" ->
            \A j \in DOMAIN turbine_data \ {i} : turbine_data[j].ts # turbine_data[i].ts

RECURSIVE DropDuplicatesFrom(_, _, _)
DropDuplicatesFrom(turbine_data, i, keep) ==
    IF i > Len(turbine_data) THEN <<>>
    ELSE (IF KeepsRow(turbine_data, i, keep) THEN <<turbine_data[i]>> ELSE <<>>)
            \o DropDuplicatesFrom(turbine_data, i + 1, keep)

DropDuplicates(turbine_data, keep) == DropDuplicatesFrom(turbine_data, 1, keep)

(* lines 52-61: the entry of duplicate_info for one turbine, if any        *)
DuplicateInfo(t, turbine_id) ==
    LET turbine_data == TurbineData(t, turbine_id)
        mask == {i \in DOMAIN turbine_data : Duplicated(turbine_data, i)}
        n_duplicates == Cardinality(mask)
    IN IF n_duplicates > 0
       THEN <<[turbine_id |-> turbine_id,
               duplicate_rows |-> n_duplicates,
               unique_duplicate_timestamps |->
                   Cardinality({turbine_data[i].ts : i \in mask})]>>
       ELSE <<>>

(* drop_duplicates applied to the whole table on the timestamp alone, not  *)
(* turbine by turbine                                                      *)
RemoveDuplicateTimestampsAcrossTurbines(t, keep) ==
    LET ids == UniqueTurbines(t)
        duplicate_info == Concat([k \in DOMAIN ids |-> DuplicateInfo(t, ids[k])])
    IN [df_cleaned |-> SortValues(DropDuplicates(t, keep), "turbine_ts"),
        duplicate_summary |-> duplicate_info,
        duplicate_summary_is_none |-> duplicate_info = <<>>]

(* lines 48-76; the table is not empty (pd.concat of nothing raises)       *)
RemoveDuplicateTimestamps(t, keep) ==
    LET ids == UniqueTurbines(t)
        duplicate_info == Concat([k \in DOMAIN ids |-> DuplicateInfo(t, ids[k])])
        df_cleaned_list ==
            [k \in DOMAIN ids |-> DropDuplicates(TurbineData(t, ids[k]), keep)]
    IN [df_cleaned |-> SortValues(Concat(df_cleaned_list), "turbine_ts"),
        duplicate_summary |-> duplicate_info,
        duplicate_summary_is_none |-> duplicate_info = <<>>]

(* ---------------------------------------------------- pd.date_range --- *)
(* pd.date_range(start, end, freq): start, start + freq, ... up to end     *)
DateRange(start, end, freq) ==
    [k \in 1..((end - start) \div freq + 1) |-> start + (k - 1) * freq]

MinTime(turbine_data) ==
    CHOOSE x \in {turbine_data[i].ts : i \in DOMAIN turbine_data} :
        \A i \in DOMAIN turbine_data : x <= turbine_data[i].ts

MaxTime(turbine_data) ==
    CHOOSE x \in {turbine_data[i].ts : i \in DOMAIN turbine_data} :
        \A i \in DOMAIN turbine_data : x >= turbine_data[i].ts

(* [ts for ts in expected_timestamps if ts not in existing_timestamps]     *)
MissingTimestamps(turbine_data, freq) ==
    LET existing_timestamps == {turbine_data[i].ts : i \in DOMAIN turbine_data}
    IN SelectSeq(DateRange(MinTime(turbine_data), MaxTime(turbine_data), freq),
                 LAMBDA ts : ts \notin existing_timestamps)

(* ----------------------------------------------- find_timestamp_gaps --- *)
GapRecord(turbine_id, g) ==
    [turbine_id |-> turbine_id,
     gap_start |-> g.gap_start,
     gap_end |-> g.gap_end,
     missing_records |-> g.gap_count,
     duration |-> g.gap_end - g.gap_start]

(* the loop for i in range(1, len(missing_timestamps)), lines 118-137,     *)
(* from index i on (1-based here); g holds gap_start, gap_end, gap_count   *)
(* and the records appended so far                                         *)
RECURSIVE GapLoop(_, _, _, _, _, _)
GapLoop(missing, i, g, turbine_id, freq, min_gap_size) ==
    IF i > Len(missing) THEN g
    ELSE IF missing[i] = g.gap_end + freq
         THEN GapLoop(missing, i + 1,
                      [g EXCEPT !.gap_end = missing[i], !.gap_count = @ + 1],
                      turbine_id, freq, min_gap_size)
         ELSE GapLoop(missing, i + 1,
                      [gap_start |-> missing[i],
                       gap_end |-> missing[i],
                       gap_count |-> 1,
                       gaps |-> IF g.gap_count >= min_gap_size
                                THEN Append(g.gaps, GapRecord(turbine_id, g))
                                ELSE g.gaps],
                      turbine_id, freq, min_gap_size)

(* the loop alone: the last run is never closed                            *)
TurbineGapsLastLost(t, turbine_id, freq, min_gap_size) ==
    LET missing == MissingTimestamps(SortValues(TurbineData(t, turbine_id), "ts"), freq)
    IN IF Len(missing) > 0
       THEN GapLoop(missing, 2,
                    [gap_start |-> missing[1], gap_end |-> missing[1],
                     gap_count |-> 1, gaps |-> <<>>],
                    turbine_id, freq, min_gap_size).gaps
       ELSE <<>>

(* lines 100-147: the gap records of one turbine                           *)
TurbineGaps(t, turbine_id, freq, min_gap_size) ==
    LET missing == MissingTimestamps(SortValues(TurbineData(t, turbine_id), "ts"), freq)
    IN IF Len(missing) > 0
       THEN LET g == GapLoop(missing, 2,
                             [gap_start |-> missing[1], gap_end |-> missing[1],
                              gap_count |-> 1, gaps |-> <<>>],
                             turbine_id, freq, min_gap_size)
            IN IF g.gap_count >= min_gap_size
               THEN Append(g.gaps, GapRecord(turbine_id, g))
               ELSE g.gaps
       ELSE <<>>

(* lines 93-149: gaps_df, the records of all turbines in turbine order     *)
FindTimestampGaps(t, freq, min_gap_size) ==
    LET sorted == SortValues(t, "turbine_ts")
        ids == UniqueTurbines(sorted)
    IN [gaps_df |-> Concat([k \in DOMAIN ids |->
                               TurbineGaps(sorted, ids[k], freq, min_gap_size)])]

(* ----------------------------------------- detect_missing_timestamps --- *)
(* round(n_missing / n_expected * 100, 2), in hundredths of a percent,     *)
(* a half rounded to the even hundredth                                    *)
MissingPct(n_missing, n_expected) ==
    IF n_expected > 0
    THEN LET q == (n_missing * 10000) \div n_expected
             r == (n_missing * 10000) % n_expected
         IN IF 2 * r > n_expected \/ (2 * r = n_expected /\ q % 2 = 1)
            THEN q + 1 ELSE q
    ELSE 0

(* MissingSummaryRow with actual_records = len(turbine_data), the rows,    *)
(* for the number of distinct timestamps                                   *)
MissingSummaryRowCountsRows(turbine_data, turbine_id, freq) ==
    LET min_time == MinTime(turbine_data)
        max_time == MaxTime(turbine_data)
        n_expected == Len(DateRange(min_time, max_time, freq))
        n_existing == Len(turbine_data)
        n_missing == Len(MissingTimestamps(turbine_data, freq))
    IN [turbine_id |-> turbine_id,
        start_time |-> min_time,
        end_time |-> max_time,
        expected_records |-> n_expected,
        actual_records |-> n_existing,
        missing_records |-> n_missing,
        missing_pct |-> MissingPct(n_missing, n_expected)]

(* lines 209-233: the row of the missing summary for one turbine           *)
MissingSummaryRow(turbine_data, turbine_id, freq) ==
    LET min_time == MinTime(turbine_data)
        max_time == MaxTime(turbine_data)
        n_expected == Len(DateRange(min_time, max_time, freq))
        n_existing == Cardinality({turbine_data[i].ts : i \in DOMAIN turbine_data})
        n_missing == Len(MissingTimestamps(turbine_data, freq))
    IN [turbine_id |-> turbine_id,
        start_time |-> min_time,
        end_time |-> max_time,
        expected_records |-> n_expected,
        actual_records |-> n_existing,
        missing_records |-> n_missing,
        missing_pct |-> MissingPct(n_missing, n_expected)]

(* the missing timestamps of a turbine taken over the span of the whole   *)
(* table instead of its own                                               *)
MissingDetailsGlobalSpan(t, turbine_id, freq) ==
    LET existing_timestamps ==
            {t[i].ts : i \in {k \in DOMAIN t : t[k].turbine = turbine_id}}
    IN SelectSeq(DateRange(MinTime(t), MaxTime(t), freq),
                 LAMBDA ts : ts \notin existing_timestamps)

(* line 236: sorted(missing_timestamps) of one turbine                     *)
MissingDetails(t, turbine_id, freq) ==
    SortInts(MissingTimestamps(SortValues(TurbineData(t, turbine_id), "ts"), freq))

(* lines 239-254: the turbine's rows, with the missing timestamps added    *)
(* as rows of NaN when fill_missing is set                                 *)
TurbineFilled(turbine_data, turbine_id, freq, fill_missing) ==
    LET missing_timestamps == MissingTimestamps(turbine_data, freq)
        missing_df == [k \in DOMAIN missing_timestamps |->
                          [turbine |-> turbine_id,
                           ts |-> missing_timestamps[k],
                           value |-> NaN]]
    IN IF fill_missing /\ Len(missing_timestamps) > 0
       THEN SortValues(turbine_data \o missing_df, "ts")
       ELSE turbine_data

(* lines 196-300; the table is not empty                                   *)
DetectMissingTimestamps(t, freq, fill_missing) ==
    LET sorted == SortValues(t, "turbine_ts")
        ids == UniqueTurbines(sorted)
        data == [k \in DOMAIN ids |-> SortValues(TurbineData(sorted, ids[k]), "ts")]
    IN [df_result |->
            SortValues(Concat([k \in DOMAIN ids |->
                                  TurbineFilled(data[k], ids[k], freq, fill_missing)]),
                       "turbine_ts"),
        missing_summary |->
            [k \in DOMAIN ids |-> MissingSummaryRow(data[k], ids[k], freq)],
        missing_details |->
            [id \in Range(ids) |-> MissingDetails(sorted, id, freq)]]

(* ------------------------------------------------------------ the calls *)
Rows == [turbine : Turbines, ts : Timestamps, value : Values]

(* the scanner sorts its copy of the table first (line 73) and no later    *)
(* step reads the input order, so the tables are drawn in key order, rows  *)
(* with the same (timestamp, turbine) in either order of their values      *)
Tables ==
    {t \in Seq(Rows) :
        /\ Len(t) <= MaxRows
        /\ \A i \in 1..(Len(t) - 1) : KeyLE(t[i], t[i + 1], "ts_turbine")}

AbsThresholds == {<<0>>, <<2>>}

DeviationThresholds == {[num |-> 1, den |-> 2], [num |-> 1, den |-> 1]}

ScanArgs ==
    [abs_threshold : AbsThresholds,
     deviation_threshold : DeviationThresholds,
     deviation_method : {"std", "mad"}]

NoResult == [df_detection |-> <<>>]

(* the scenario of the specification: values 150, 5, 8 at one timestamp,  *)
(* abs_threshold 100, deviation_threshold 2.0, method 'std'               *)
ScenarioTable ==
    <<[turbine |-> 1, ts |-> 1, value |-> 150],
      [turbine |-> 2, ts |-> 1, value |-> 5],
      [turbine |-> 3, ts |-> 1, value |-> 8]>>

ScenarioArgs ==
    [abs_threshold |-> <<100>>,
     deviation_threshold |-> [num |-> 2, den |-> 1],
     deviation_method |-> "std"]

Init ==
    /\ \/ /\ \E n \in 0..MaxRows : \E t \in [1..n -> Rows] : t \in Tables /\ df = t
          /\ args \in ScanArgs
       \/ /\ df = ScenarioTable
          /\ args = ScenarioArgs
    /\ op = "none"
    /\ status = "ready"
    /\ result = NoResult
    /\ prev = <<>>

(* line 175: the summary prints abs_threshold_pass / total_records, which   *)
(* raises ZeroDivisionError on a table without rows                        *)
SummaryRaises(st) == Len(st.df) = 0

(* a call of scan_turbine_anomalies(df, **args): it returns the pair or    *)
(* raises and returns nothing                                              *)
Scan ==
    /\ status = "ready"
    /\ "deviation_method" \in DOMAIN args
    /\ LET st == ScanLoops(df, args)
       IN IF st.raised \/ SummaryRaises(st)
          THEN status' = "raised" /\ result' = NoResult
          ELSE status' = "returned" /\ result' = ScanReturn(st)
    /\ op' = "scan_turbine_anomalies"
    /\ UNCHANGED <<df, args, prev>>

(* the caller takes the detection column of the first run as the value     *)
(* column of a second run, same thresholds and method                      *)
Rescan ==
    /\ op = "scan_turbine_anomalies"
    /\ status = "returned"
    /\ prev = <<>>
    /\ df' = [i \in DOMAIN result.df_detection |->
                [turbine |-> result.df_detection[i].turbine,
                 ts |-> result.df_detection[i].ts,
                 value |-> result.df_detection[i].detection]]
    /\ prev' = <<result.df_detection>>
    /\ status' = "ready"
    /\ result' = NoResult
    /\ UNCHANGED <<args, op>>

Next == Scan \/ Rescan

Spec == Init /\ [][Next]_vars

(* ------------------------------- the calls of data_checker_clean.py *)
(* the table with the keys k, in k's order; the value column holds the    *)
(* row's position                                                         *)
GapTable(k) == [i \in DOMAIN k |-> [turbine |-> k[i][1], ts |-> k[i][2], value |-> i]]

Keeps == {"first", "last", "False"}

Freqs == {1, 2}

MinGapSizes == {1, 2}

(* tables of up to MaxGapRows rows in any row order                        *)
InitGap ==
    /\ \E n \in 0..MaxGapRows :
          \E k \in [1..n -> GapTurbines \X Ticks] : df = GapTable(k)
    /\ args = [call |-> "none"]
    /\ op = "none"
    /\ status = "ready"
    /\ result = NoResult
    /\ prev = <<>>

(* remove_duplicate_timestamps(df, keep=keep); pd.concat of an empty list *)
(* (line 68) raises on a table without rows                                *)
RemoveDuplicates ==
    /\ status = "ready"
    /\ \E keep \in Keeps :
          /\ args' = [keep |-> keep]
          /\ IF df = <<>>
             THEN status' = "raised" /\ result' = NoResult
             ELSE status' = "returned" /\ result' = RemoveDuplicateTimestamps(df, keep)
    /\ op' = "remove_duplicate_timestamps"
    /\ UNCHANGED <<df, prev>>

(* find_timestamp_gaps(df, freq=freq, min_gap_size=min_gap_size)          *)
FindGaps ==
    /\ status = "ready"
    /\ \E freq \in Freqs, min_gap_size \in MinGapSizes :
          /\ args' = [freq |-> freq, min_gap_size |-> min_gap_size]
          /\ result' = FindTimestampGaps(df, freq, min_gap_size)
    /\ status' = "returned"
    /\ op' = "find_timestamp_gaps"
    /\ UNCHANGED <<df, prev>>

(* detect_missing_timestamps(df, freq=freq, fill_missing=fill_missing);   *)
(* on a table without rows the summary has no columns and line 268 (or    *)
(* pd.concat at line 294) raises                                          *)
DetectMissing ==
    /\ status = "ready"
    /\ \E freq \in Freqs, fill_missing \in BOOLEAN :
          /\ args' = [freq |-> freq, fill_missing |-> fill_missing]
          /\ IF df = <<>>
             THEN status' = "raised" /\ result' = NoResult
             ELSE status' = "returned"
                  /\ result' = DetectMissingTimestamps(df, freq, fill_missing)
    /\ op' = "detect_missing_timestamps"
    /\ UNCHANGED <<df, prev>>

NextGap == RemoveDuplicates \/ FindGaps \/ DetectMissing

SpecGap == InitGap /\ [][NextGap]_vars

(* ------------------------- calls with any argument and any row order --- *)
CallTurbines == {1, 2}

CallValues == {-3, 1, 3}

CallRows == [turbine : CallTurbines, ts : Timestamps, value : CallValues]

(* abs_threshold defaults to None, <<>> here; deviation_method is any      *)
(* string, 'median' standing for those the code does not name              *)
CallArgs ==
    [abs_threshold : {<<>>, <<0>>, <<2>>},
     deviation_threshold : {[num |-> 1, den |-> 1]},
     deviation_method : {"std", "mad", "median"}]

ChannelRows == [turbine : CallTurbines, column1 : {0, 3}, column2 : {0, 2}]

DifferenceArgs == [difference_type : DifferenceTypes \cup {"percent"}]

(* a scanner call on a table in any row order, or a call of               *)
(* add_difference_column on a table of two channels                       *)
InitCalls ==
    /\ \/ /\ \E n \in 0..MaxRows : \E t \in [1..n -> CallRows] : df = t
          /\ args \in CallArgs
       \/ /\ \E n \in 0..MaxRows : \E t \in [1..n -> ChannelRows] : df = t
          /\ args \in DifferenceArgs
    /\ op = "none"
    /\ status = "ready"
    /\ result = NoResult
    /\ prev = <<>>

(* add_difference_column(df, column1, column2, difference_type=...)       *)
AddDifference ==
    /\ status = "ready"
    /\ "difference_type" \in DOMAIN args
    /\ IF args.difference_type \in DifferenceTypes
       THEN status' = "returned"
            /\ result' = AddDifferenceColumn(df, args.difference_type)
       ELSE status' = "raised" /\ result' = NoResult
    /\ op' = "add_difference_column"
    /\ UNCHANGED <<df, args, prev>>

NextCalls == Scan \/ AddDifference

SpecCalls == InitCalls /\ [][NextCalls]_vars

(* ------------------------------------------------- scanner properties *)
ScanReturned == op = "scan_turbine_anomalies" /\ status = "returned"

(* the detections the returned table holds for input record r             *)
DetectionsOf(r) ==
    {result.df_detection[j].detection :
        j \in {k \in DOMAIN result.df_detection :
                  /\ result.df_detection[k].turbine = r.turbine
                  /\ result.df_detection[k].ts = r.ts}}

(* the input records at the timestamp of record r (its timestamp group)   *)
GroupOf(r) == {j \in DOMAIN df : df[j].ts = r.ts}

PassesStage1(r) == Abs(r.value) > args.abs_threshold[1]

(* C1: when the scan returns, every record with |value| <= abs_threshold  *)
(* (equality included) has detection 0, and the Stage 1 counter counts    *)
(* exactly the records with |value| > abs_threshold.                      *)
C1_StrictMagnitudeGate ==
    ScanReturned =>
        /\ \A i \in DOMAIN df :
              Abs(df[i].value) <= args.abs_threshold[1] => DetectionsOf(df[i]) = {0}
        /\ result.anomaly_stats.abs_threshold_pass
              = Cardinality({i \in DOMAIN df : PassesStage1(df[i])})

(* a record exactly at the threshold, next to a flagged peer              *)
C1_Witness ==
    /\ ScanReturned
    /\ \E i, j \in DOMAIN df :
          /\ df[i].ts = df[j].ts
          /\ Abs(df[i].value) = args.abs_threshold[1]
          /\ df[i].value # 0
          /\ DetectionsOf(df[i]) = {0}
          /\ DetectionsOf(df[j]) = {df[j].value}
          /\ df[j].value # 0

(* C2: when the scan returns, a record alone at its timestamp that passes *)
(* Stage 1 has its signed value as detection, for every method and        *)
(* deviation threshold.                                                   *)
C2_SingleTurbineAutoPass ==
    ScanReturned =>
        \A i \in DOMAIN df :
            (GroupOf(df[i]) = {i} /\ PassesStage1(df[i]))
                => DetectionsOf(df[i]) = {df[i].value}

(* a negative value alone at its timestamp, flagged with its sign         *)
C2_Witness ==
    /\ ScanReturned
    /\ \E i \in DOMAIN df :
          /\ GroupOf(df[i]) = {i}
          /\ PassesStage1(df[i])
          /\ df[i].value < 0
          /\ DetectionsOf(df[i]) = {df[i].value}
          /\ Len(df) > 1

(* ---- the statistics of a timestamp group, stated on the input table --- *)
RECURSIVE SumOver(_, _)
SumOver(f, S) ==
    IF S = {} THEN 0
    ELSE LET x == CHOOSE y \in S : TRUE IN f[x] + SumOver(f, S \ {x})

(* the k-th smallest of the values f takes on S, counted with repetition  *)
OrderStat(f, S, k) ==
    CHOOSE x \in {f[j] : j \in S} :
        /\ Cardinality({j \in S : f[j] < x}) < k
        /\ k <= Cardinality({j \in S : f[j] <= x})

(* twice the median of the values f takes on S                            *)
TwiceMedian(f, S) ==
    LET n == Cardinality(S)
    IN OrderStat(f, S, (n + 1) \div 2) + OrderStat(f, S, n \div 2 + 1)

GroupAbs(r) == [j \in GroupOf(r) |-> Abs(df[j].value)]

(* n * (abs_value - mean) for every member of the group of r              *)
GroupDeviations(r) ==
    LET G == GroupOf(r)
        n == Cardinality(G)
        S == SumOver(GroupAbs(r), G)
    IN [j \in G |-> n * Abs(df[j].value) - S]

(* the sum of their squares, n^2 * (n - 1) * std^2                        *)
GroupSquares(r) ==
    LET D == GroupDeviations(r)
    IN SumOver([j \in GroupOf(r) |-> D[j] * D[j]], GroupOf(r))

(* z = |abs_value - mean| / std > deviation_threshold for record i, with  *)
(* std^2 = sum (x - mean)^2 / (n - 1)                                     *)
ZExceeds(i) ==
    LET n == Cardinality(GroupOf(df[i]))
        D == GroupDeviations(df[i])[i]
        dt == args.deviation_threshold
    IN \/ dt.num < 0
       \/ D * D * (n - 1) * dt.den * dt.den > dt.num * dt.num * GroupSquares(df[i])

GroupTwiceMedian(r) == TwiceMedian(GroupAbs(r), GroupOf(r))

(* four times the MAD of the group's absolute values                      *)
GroupMad4(r) ==
    LET m == GroupTwiceMedian(r)
    IN TwiceMedian([j \in GroupOf(r) |-> Abs(2 * Abs(df[j].value) - m)], GroupOf(r))

(* |abs_value - median| / (1.4826 * MAD) > deviation_threshold            *)
ModifiedZExceeds(i) ==
    LET dt == args.deviation_threshold
    IN 2 * Abs(2 * Abs(df[i].value) - GroupTwiceMedian(df[i])) * 10000 * dt.den
          > dt.num * 14826 * GroupMad4(df[i])

(* Stage 2 as section 4.2 of the specification states it                  *)
PassesStage2(i) ==
    LET r == df[i]
        n == Cardinality(GroupOf(r))
    IN IF n < 2 THEN TRUE
       ELSE IF args.deviation_method = "std"
            THEN IF GroupSquares(r) > 0 THEN ZExceeds(i)
                 ELSE GroupDeviations(r)[i] > 0
            ELSE IF args.deviation_method = "mad"
                 THEN IF GroupMad4(r) > 0 THEN ModifiedZExceeds(i)
                      ELSE 2 * Abs(r.value) > GroupTwiceMedian(r)
                 ELSE FALSE

(* C3: every call of the scanner with a numeric abs_threshold on a table  *)
(* with rows ends with a table that has one row per input record, holding *)
(* the record's signed value when both stages pass and 0 otherwise;       *)
(* tables in which a (turbine, timestamp) pair occurs twice are included. *)
C3_OneDetectionPerRecord ==
    (op = "scan_turbine_anomalies" /\ status \in {"returned", "raised"}
        /\ args.abs_threshold # <<>> /\ df # <<>>) =>
        /\ status = "returned"
        /\ Len(result.df_detection) = Len(df)
        /\ \A i \in DOMAIN df :
              /\ Cardinality({k \in DOMAIN result.df_detection :
                                 /\ result.df_detection[k].turbine = df[i].turbine
                                 /\ result.df_detection[k].ts = df[i].ts})
                    = Cardinality({k \in DOMAIN df :
                                      /\ df[k].turbine = df[i].turbine
                                      /\ df[k].ts = df[i].ts})
              /\ DetectionsOf(df[i])
                    = {IF PassesStage1(df[i]) /\ PassesStage2(i)
                       THEN df[i].value ELSE 0}

(* no (turbine, timestamp) pair occurs twice in the input table           *)
NoDuplicateKeys ==
    \A i, j \in DOMAIN df :
        (df[i].turbine = df[j].turbine /\ df[i].ts = df[j].ts) => i = j

(* C4: when the scan returns, every record of a timestamp group of two or *)
(* more turbines whose absolute values are all equal (so the group's std  *)
(* and MAD are zero) has detection 0, under 'std' and under 'mad'.        *)
C4_ConstantGroupNeverFlagged ==
    ScanReturned =>
        \A i \in DOMAIN df :
            (/\ Cardinality(GroupOf(df[i])) >= 2
             /\ \A j \in GroupOf(df[i]) : Abs(df[j].value) = Abs(df[i].value))
                => DetectionsOf(df[i]) = {0}

(* three turbines with the same value, every one past the magnitude gate  *)
C4_Witness ==
    /\ ScanReturned
    /\ \E i \in DOMAIN df :
          /\ Cardinality(GroupOf(df[i])) = 3
          /\ \A j \in GroupOf(df[i]) : df[j].value = df[i].value
          /\ PassesStage1(df[i])
          /\ DetectionsOf(df[i]) = {0}
          /\ result.anomaly_stats.abs_threshold_pass = 3

(* C5: under 'std', when the scan returns, a record that passed Stage 1   *)
(* in a group of two or more turbines with std > 0 has its signed value   *)
(* as detection if z = |abs_value - mean| / std > deviation_threshold and *)
(* 0 if z <= deviation_threshold; the scenario 150, 5, 8 gives 0 for all. *)
C5_StdDeviationGate ==
    (ScanReturned /\ args.deviation_method = "std") =>
        /\ \A i \in DOMAIN df :
              (/\ PassesStage1(df[i])
               /\ Cardinality(GroupOf(df[i])) >= 2
               /\ GroupSquares(df[i]) > 0)
                  => DetectionsOf(df[i]) = {IF ZExceeds(i) THEN df[i].value ELSE 0}
        /\ (df = ScenarioTable /\ args = ScenarioArgs) =>
              /\ result.anomaly_stats.abs_threshold_pass = 1
              /\ \A k \in DOMAIN result.df_detection :
                    result.df_detection[k].detection = 0

(* one group of three holds a Stage 1 survivor with z > threshold,        *)
(* flagged, beside a Stage 1 survivor with z <= threshold, not flagged    *)
C5_Witness ==
    /\ ScanReturned
    /\ args.deviation_method = "std"
    /\ \E i, j \in DOMAIN df :
          /\ PassesStage1(df[i]) /\ PassesStage1(df[j])
          /\ Cardinality(GroupOf(df[i])) = 3
          /\ df[j].ts = df[i].ts
          /\ GroupSquares(df[i]) > 0
          /\ ZExceeds(i) /\ DetectionsOf(df[i]) = {df[i].value}
          /\ ~ZExceeds(j) /\ DetectionsOf(df[j]) = {0}

(* the record is the one member of its group whose absolute value differs *)
(* from that of all the others, and the group has three or more members   *)
SingleOutlier(i) ==
    /\ Cardinality(GroupOf(df[i])) >= 3
    /\ \A j, k \in GroupOf(df[i]) \ {i} : Abs(df[j].value) = Abs(df[k].value)
    /\ \A j \in GroupOf(df[i]) \ {i} : Abs(df[j].value) # Abs(df[i].value)

SecondRunReturned == ScanReturned /\ prev # <<>>

(* C7 as stated: the second run's detection table equals the first run's  *)
C7_Idempotent == SecondRunReturned => result.df_detection = prev[1]

(* the rows of the first run's table at the timestamp of its row j, and   *)
(* those of them the first run flagged                                    *)
FirstGroup(j) == {k \in DOMAIN prev[1] : prev[1][k].ts = prev[1][j].ts}

FirstFlagged(j) == {k \in FirstGroup(j) : prev[1][k].detection # 0}

(* C7 amended: a second run on the first run's detection column returns;  *)
(* it has the same rows, each with its first-run detection or 0; and it   *)
(* agrees with the first run on every timestamp group that has a single   *)
(* turbine, or in which the first run flagged no record, or (method       *)
(* 'mad') in which the first run flagged fewer than half of the records.  *)
C7_SecondRunOnlyClears ==
    /\ (op = "scan_turbine_anomalies" /\ prev # <<>>) => status # "raised"
    /\ SecondRunReturned =>
          /\ Len(result.df_detection) = Len(prev[1])
          /\ \A j \in DOMAIN prev[1] :
                /\ result.df_detection[j].turbine = prev[1][j].turbine
                /\ result.df_detection[j].ts = prev[1][j].ts
                /\ result.df_detection[j].detection \in {prev[1][j].detection, 0}
                /\ (\/ Cardinality(FirstGroup(j)) = 1
                    \/ FirstFlagged(j) = {}
                    \/ /\ args.deviation_method = "mad"
                       /\ 2 * Cardinality(FirstFlagged(j)) < Cardinality(FirstGroup(j)))
                      => result.df_detection[j].detection = prev[1][j].detection

(* the second run keeps the one detection of a group of three under 'mad' *)
(* in one group and clears a first-run detection in another table         *)
C7_Witness ==
    /\ SecondRunReturned
    /\ args.deviation_method = "mad"
    /\ \E j \in DOMAIN prev[1] :
          /\ Cardinality(FirstGroup(j)) = 3
          /\ FirstFlagged(j) = {j}
          /\ result.df_detection[j].detection = prev[1][j].detection

(* --------------------------------------------- gap analyzer properties *)
TurbinesOf == {df[i].turbine : i \in DOMAIN df}

(* the timestamps observed for turbine u in the input table               *)
Observed(u) == {df[i].ts : i \in {k \in DOMAIN df : df[k].turbine = u}}

FirstObserved(u) == CHOOSE x \in Observed(u) : \A y \in Observed(u) : x <= y

LastObserved(u) == CHOOSE x \in Observed(u) : \A y \in Observed(u) : x >= y

(* the regular grid of turbine u: its first timestamp plus multiples of   *)
(* the interval, up to and including its last timestamp                   *)
Grid(u, freq) ==
    {x \in FirstObserved(u)..LastObserved(u) : (x - FirstObserved(u)) % freq = 0}

Missing(u, freq) == Grid(u, freq) \ Observed(u)

(* a..b is a maximal run, of length >= min_gap_size, of consecutive       *)
(* timestamps of M, the missing grid timestamps of a turbine              *)
MaximalRun(M, freq, min_gap_size, a, b) ==
    /\ a <= b
    /\ (b - a) % freq = 0
    /\ \A k \in 0..((b - a) \div freq) : (a + k * freq) \in M
    /\ (a - freq) \notin M
    /\ (b + freq) \notin M
    /\ (b - a) \div freq + 1 >= min_gap_size

ExpectedGapsOf(u, freq, min_gap_size) ==
    LET M == Missing(u, freq)
    IN {[turbine_id |-> u,
         gap_start |-> x[1],
         gap_end |-> x[2],
         missing_records |-> (x[2] - x[1]) \div freq + 1,
         duration |-> x[2] - x[1]] :
           x \in {y \in M \X M : MaximalRun(M, freq, min_gap_size, y[1], y[2])}}

ExpectedGaps(freq, min_gap_size) ==
    UNION {ExpectedGapsOf(u, freq, min_gap_size) : u \in TurbinesOf}

GapsReturned == op = "find_timestamp_gaps" /\ status = "returned"

(* C8: the gap table holds, once each and in (turbine, gap_start) order,  *)
(* exactly the maximal runs of consecutive missing grid timestamps of     *)
(* each turbine whose length is >= min_gap_size, with gap_start, gap_end, *)
(* missing_records = run length and duration = gap_end - gap_start.       *)
C8_GapsAreMaximalRuns ==
    GapsReturned =>
        LET gaps == result.gaps_df
            expected == ExpectedGaps(args.freq, args.min_gap_size)
        IN /\ Range(gaps) = expected
           /\ Len(gaps) = Cardinality(expected)
           /\ \A i \in 1..(Len(gaps) - 1) :
                 \/ gaps[i].turbine_id < gaps[i + 1].turbine_id
                 \/ /\ gaps[i].turbine_id = gaps[i + 1].turbine_id
                    /\ gaps[i].gap_end < gaps[i + 1].gap_start

(* the scenario of the specification, 08:00 and 08:30 present, 08:10 and  *)
(* 08:20 missing, in ticks of ten minutes; the other turbine has a        *)
(* reading inside the gap                                                 *)
C8_Witness ==
    /\ GapsReturned
    /\ args = [freq |-> 1, min_gap_size |-> 2]
    /\ Observed(1) = {0, 3}
    /\ Observed(2) = {1}
    /\ result.gaps_df = <<[turbine_id |-> 1, gap_start |-> 1, gap_end |-> 2,
                           missing_records |-> 2, duration |-> 1]>>

MissingReturned == op = "detect_missing_timestamps" /\ status = "returned"

(* C9: for each turbine the reported missing timestamps are, ascending    *)
(* and once each, the grid from the turbine's own first to its own last   *)
(* timestamp minus the turbine's observed timestamps; the summary row     *)
(* carries that span and that count.                                      *)
C9_MissingIsGridMinusObserved ==
    MissingReturned =>
        /\ DOMAIN result.missing_details = TurbinesOf
        /\ \A u \in TurbinesOf :
              LET missing == result.missing_details[u]
              IN /\ Range(missing) = Missing(u, args.freq)
                 /\ \A i \in 1..(Len(missing) - 1) : missing[i] < missing[i + 1]
                 /\ \E k \in DOMAIN result.missing_summary :
                       /\ result.missing_summary[k].turbine_id = u
                       /\ result.missing_summary[k].start_time = FirstObserved(u)
                       /\ result.missing_summary[k].end_time = LastObserved(u)
                       /\ result.missing_summary[k].missing_records
                             = Cardinality(Missing(u, args.freq))

(* a timestamp observed for turbine 2 only is missing for turbine 1, and  *)
(* turbine 2, inside the span of turbine 1, misses nothing                *)
C9_Witness ==
    /\ MissingReturned
    /\ args.freq = 1
    /\ Observed(1) = {0, 3}
    /\ Observed(2) = {1}
    /\ result.missing_details[1] = <<1, 2>>
    /\ result.missing_details[2] = <<>>

DuplicatesReturned == op = "remove_duplicate_timestamps" /\ status = "returned"

SameKey(i, j) == df[i].turbine = df[j].turbine /\ df[i].ts = df[j].ts

(* the input rows of turbine u whose timestamp occurs again in turbine u  *)
DuplicateRows(u) ==
    {i \in DOMAIN df : df[i].turbine = u /\ \E j \in DOMAIN df \ {i} : SameKey(i, j)}

(* the input rows the removal policy keeps                                *)
KeptRows(keep) ==
    {i \in DOMAIN df :
        CASE keep = "first" -> \A j \in 1..(i - 1) : ~SameKey(i, j)
          [] keep = "last" -> \A j \in (i + 1)..Len(df) : ~SameKey(i, j)
          [] keep = "False" -> \A j \in DOMAIN df \ {i} : ~SameKey(i, j)}

(* C10: duplicates are per turbine. The summary has, for each turbine     *)
(* with a duplicated timestamp, one row with duplicate_rows = the number  *)
(* of its rows whose timestamp occurs more than once within the turbine   *)
(* and unique_duplicate_timestamps = the number of distinct such          *)
(* timestamps, counted on the input (a turbine without duplicates has no  *)
(* row: nothing is reported for it). The cleaned table holds exactly the  *)
(* first, the last or none of the rows of each duplicated (turbine,       *)
(* timestamp), by keep, and every other row unchanged, once each.         *)
C10_DuplicatesPerTurbine ==
    DuplicatesReturned =>
        /\ \A u \in TurbinesOf :
              LET rows == {k \in DOMAIN result.duplicate_summary :
                              result.duplicate_summary[k].turbine_id = u}
              IN IF DuplicateRows(u) = {} THEN rows = {}
                 ELSE /\ Cardinality(rows) = 1
                      /\ \A k \in rows :
                            /\ result.duplicate_summary[k].duplicate_rows
                                  = Cardinality(DuplicateRows(u))
                            /\ result.duplicate_summary[k].unique_duplicate_timestamps
                                  = Cardinality({df[i].ts : i \in DuplicateRows(u)})
        /\ \A k \in DOMAIN result.duplicate_summary :
              result.duplicate_summary[k].turbine_id \in TurbinesOf
        /\ Range(result.df_cleaned) = {df[i] : i \in KeptRows(args.keep)}
        /\ Len(result.df_cleaned) = Cardinality(KeptRows(args.keep))

(* turbine 1 has a timestamp twice that turbine 2 has once: two duplicate *)
(* rows for turbine 1, none for turbine 2, and the later row is kept      *)
C10_Witness ==
    /\ DuplicatesReturned
    /\ args.keep = "last"
    /\ Len(df) = 3
    /\ \A i \in DOMAIN df : df[i].ts = df[1].ts
    /\ Cardinality(DuplicateRows(1)) = 2
    /\ DuplicateRows(2) = {}
    /\ result.duplicate_summary
          = <<[turbine_id |-> 1, duplicate_rows |-> 2, unique_duplicate_timestamps |-> 1]>>
    /\ Len(result.df_cleaned) = 2
    /\ \A k \in DOMAIN result.df_cleaned :
          \A i \in DuplicateRows(1) : result.df_cleaned[k].value >= df[i].value
             \/ result.df_cleaned[k].turbine = 2

(* no turbine has a timestamp twice in the input table                    *)
NoDuplicates == \A i, j \in DOMAIN df : SameKey(i, j) => i = j

(* no turbine misses a timestamp of its grid                              *)
NoMissing(freq) == \A u \in TurbinesOf : Missing(u, freq) = {}

(* the returned table t holds the rows of the input, each once            *)
SameRows(t) == Range(t) = Range(df) /\ Len(t) = Len(df)

(* C11: round trip. On a table with rows in which no turbine has a        *)
(* duplicated timestamp and no turbine misses a grid timestamp,           *)
(* remove_duplicate_timestamps returns the rows of the input, each once,  *)
(* and a duplicate summary without rows; find_timestamp_gaps returns a    *)
(* gap table without rows; detect_missing_timestamps, with or without     *)
(* fill_missing, returns the rows of the input, each once, and            *)
(* missing_records = 0 for every turbine. (A table without rows is an     *)
(* error input: the first and the last call raise on it.)                 *)
C11_RoundTrip ==
    (df # <<>> /\ NoDuplicates /\ status # "ready") =>
        /\ op = "remove_duplicate_timestamps" =>
              /\ status = "returned"
              /\ SameRows(result.df_cleaned)
              /\ result.duplicate_summary = <<>>
        /\ (op = "find_timestamp_gaps" /\ NoMissing(args.freq)) =>
              /\ status = "returned"
              /\ result.gaps_df = <<>>
        /\ (op = "detect_missing_timestamps" /\ NoMissing(args.freq)) =>
              /\ status = "returned"
              /\ SameRows(result.df_result)
              /\ \A k \in DOMAIN result.missing_summary :
                    result.missing_summary[k].missing_records = 0

(* two turbines with the same first timestamp, rows supplied out of key   *)
(* order, cleaned with keep = False: the rows come back in key order      *)
C11_Witness ==
    /\ op = "remove_duplicate_timestamps"
    /\ status = "returned"
    /\ args.keep = "False"
    /\ NoDuplicates
    /\ NoMissing(1)
    /\ Len(df) = 3
    /\ TurbinesOf = {1, 2}
    /\ \E i, j \in DOMAIN df : df[i].ts = df[j].ts /\ i # j
    /\ SameRows(result.df_cleaned)
    /\ result.df_cleaned # df
    /\ result.duplicate_summary = <<>>

(* --------------------------------------------- properties of the calls *)
(* C12: a call of add_difference_column with a difference_type other than *)
(* 'absolute', 'relative', 'ratio', and a call of scan_turbine_anomalies  *)
(* with a deviation_method other than 'std', 'mad', raise and return no   *)
(* table, whatever the input table.                                       *)
C12_UnknownStringRaises ==
    /\ (op = "add_difference_column"
           /\ args.difference_type \notin {"absolute", "relative", "ratio"})
          => (status = "raised" /\ result = NoResult)
    /\ (op = "scan_turbine_anomalies"
           /\ args.deviation_method \notin {"std", "mad"})
          => (status = "raised" /\ result = NoResult)

(* row a comes strictly before row b in (timestamp, turbine) order        *)
KeyBefore(a, b) == a.ts < b.ts \/ (a.ts = b.ts /\ a.turbine < b.turbine)

(* C13: the table the scanner returns has exactly the columns turbine,    *)
(* timestamp and detection, one row per input row, in non-decreasing      *)
(* (timestamp, turbine) order whatever the order of the input rows: the   *)
(* k-th row is the one whose key has k - 1 input keys before it.          *)
C13_OutputColumnsAndOrder ==
    ScanReturned =>
        LET out == result.df_detection
        IN /\ Len(out) = Len(df)
           /\ \A k \in DOMAIN out : DOMAIN out[k] = {"turbine", "ts", "detection"}
           /\ \A k \in 1..(Len(out) - 1) : ~KeyBefore(out[k + 1], out[k])
           /\ \A k \in DOMAIN out :
                 Cardinality({i \in DOMAIN df : KeyBefore(df[i], out[k])}) = k - 1

(* three input rows in descending key order over two timestamps, one of   *)
(* them flagged: the output is in ascending key order                     *)
C13_Witness ==
    /\ ScanReturned
    /\ Len(df) = 3
    /\ KeyBefore(df[3], df[2]) /\ KeyBefore(df[2], df[1])
    /\ df[1].ts # df[3].ts
    /\ \E k \in DOMAIN result.df_detection : result.df_detection[k].detection # 0
    /\ KeyBefore(result.df_detection[1], result.df_detection[2])
    /\ KeyBefore(result.df_detection[2], result.df_detection[3])

(* C14: with abs_threshold = None (the default) the call completes,       *)
(* Stage 1 is not applied, and every record's detection is its signed     *)
(* value if it passes the Stage 2 peer-deviation test and 0 otherwise.    *)
(* Stated for tables with rows and distinct (turbine, timestamp) keys and *)
(* for the methods 'std' and 'mad'.                                       *)
C14_DeviationOnlyMode ==
    (/\ op = "scan_turbine_anomalies"
     /\ status # "ready"
     /\ args.abs_threshold = <<>>
     /\ args.deviation_method \in {"std", "mad"}
     /\ df # <<>>
     /\ NoDuplicateKeys) =>
        /\ status = "returned"
        /\ Len(result.df_detection) = Len(df)
        /\ \A i \in DOMAIN df :
              DetectionsOf(df[i]) = {IF PassesStage2(i) THEN df[i].value ELSE 0}

(* C15 as stated: every row of the missing summary has                    *)
(* expected_records = actual_records + missing_records, turbines with     *)
(* observed timestamps off the grid and with duplicated timestamps        *)
(* included.                                                              *)
C15_ExpectedIsActualPlusMissing ==
    MissingReturned =>
        \A k \in DOMAIN result.missing_summary :
            result.missing_summary[k].expected_records
                = result.missing_summary[k].actual_records
                    + result.missing_summary[k].missing_records

(* the observed timestamps of turbine u that are not on its grid          *)
OffGrid(u, freq) == Observed(u) \ Grid(u, freq)

(* C15 amended: the summary has one row per turbine, with                 *)
(* expected_records the size of the turbine's grid, actual_records the    *)
(* number of its distinct observed timestamps and                         *)
(* expected_records + (number of distinct observed timestamps off the     *)
(* grid) = actual_records + missing_records; so expected = actual +       *)
(* missing exactly for the turbines whose observed timestamps all lie on  *)
(* the grid, duplicated timestamps or not.                                *)
C15_CountsBalanceUpToOffGrid ==
    MissingReturned =>
        /\ Len(result.missing_summary) = Cardinality(TurbinesOf)
        /\ \A u \in TurbinesOf :
              \E k \in DOMAIN result.missing_summary :
                  LET row == result.missing_summary[k]
                  IN /\ row.turbine_id = u
                     /\ row.expected_records = Cardinality(Grid(u, args.freq))
                     /\ row.actual_records = Cardinality(Observed(u))
                     /\ row.expected_records + Cardinality(OffGrid(u, args.freq))
                           = row.actual_records + row.missing_records
                     /\ (row.expected_records
                           = row.actual_records + row.missing_records)
                           <=> (OffGrid(u, args.freq) = {})

(* one turbine with a duplicated timestamp off its grid and a missing     *)
(* grid timestamp, another with a duplicated timestamp on its grid        *)
C15_Witness ==
    /\ MissingReturned
    /\ args.freq = 2
    /\ \E u \in TurbinesOf :
          /\ DuplicateRows(u) # {}
          /\ OffGrid(u, 2) # {}
          /\ Missing(u, 2) # {}
          /\ \E k \in DOMAIN result.missing_summary :
                /\ result.missing_summary[k].turbine_id = u
                /\ result.missing_summary[k].expected_records = 2
                /\ result.missing_summary[k].actual_records = 2
                /\ result.missing_summary[k].missing_records = 1

====
